---- MODULE Spec2Model ----
(***************************************************************************)
(* picker2: the rate-governed request scheduler of the two provider        *)
(* clients (MySportsFeedsAPI, OpenWeatherAPI: rateLimitRequest and         *)
(* processQueue), the weather lookups of the weather client, and the       *)
(* PredictionEngine: its batch loop, its weather acquisition and its       *)
(* calculators; the collectAllData run of the DataCollectionService, the   *)
(* run guard of the DataScheduler and getBulkWeather of the weather        *)
(* client.                                                                 *)
(*                                                                         *)
(* Time is the value of Date.now() in milliseconds.  JavaScript runs one   *)
(* callback at a time, so every action below is one run-to-completion      *)
(* stretch of code: from a call or a resumption to the next await.         *)
(***************************************************************************)
EXTENDS Integers, Sequences, FiniteSets, TLC

(* ------------------------------ bounds -------------------------------- *)
\* number of units submitted over a run (the queue itself is unbounded)
MaxUnits == 5
\* idle time is only let pass while the clock is below this value
MaxTime == 70000
\* the per-window quota L (config.*.rateLimit is 100 and 60)
RateLimit == 2

(* ------------------------- program constants -------------------------- *)
\* length of the rate window, ms
Window == 60000
\* inter-request delay of the statistics client, ms
DelayStats == 100
\* inter-request delay of the weather client, ms
DelayWeather == 200

\* provider client instances of one process: the statistics client and the
\* weather client of a DataCollectionService, and the weather client its
\* PredictionEngine constructs for itself
Clients == {"msf", "owDcs", "owPe"}
Provider(c) == IF c = "msf" THEN "statistics" ELSE "weather"
DelayNone(c) == 0
Delay(c) == IF Provider(c) = "statistics" THEN DelayStats ELSE DelayWeather

Units == 1..MaxUnits
\* idle periods and late timers
ElapseSteps == {30000}
\* how long a unit runs before it settles
UnitDurations == {0, 150}
Outcomes == {"value", "error"}

VARIABLES
  now,                \* Date.now()
  rateLimitQueue,     \* per client: queued closures, named by their unit
  isProcessingQueue,  \* per client
  lastRequestTime,    \* per client
  requestCount,       \* per client: count
  resetTime,          \* per client: windowEnd
  pc,                 \* per client: where its drain loop is suspended
  timerDue,           \* per client: due time of the pending setTimeout
  current,            \* per client: the unit awaited at line 83 (0: none)
  nextId,             \* units are named 1, 2, ... in order of submission
  owner,              \* per unit: the client it was submitted to
  phase,              \* per unit: unsubmitted / queued / running / done
  outcome,            \* per unit: what requestFn produced
  delivered,          \* per unit: what the caller's promise was settled with
  runs,               \* per unit: calls of requestFn
  settles,            \* per unit: calls of resolve or reject
  startTime,          \* per unit: Date.now() when requestFn was called
  settleTime,         \* per client: Date.now() when its last unit settled
  startOrder,         \* per client: units in the order they started
  settleOrder,        \* per client: units in the order their callers were settled
  windowStarts,       \* per client: units started since the last reset
  activeDrains,       \* per client: processQueue invocations past the guard
  pred                \* the prediction engine's step (see below)

schedVars == <<now, rateLimitQueue, isProcessingQueue, lastRequestTime,
               requestCount, resetTime, pc, timerDue, current, nextId, owner,
               phase, outcome, delivered, runs, settles, startTime, settleTime,
               startOrder, settleOrder, windowStarts, activeDrains>>
vars == <<schedVars, pred>>

NotDelivered == [kind |-> "none", of |-> 0]
PredIdle == [stage |-> "idle"]

(* --------------------------- the Scheduler ---------------------------- *)

\* line 12: resetTime = Date.now() + 60000
NewWindowEnd(t) == t + Window

\* line 55: the guard of processQueue
ReturnsEarlyNoGuard(isProc, q) == Len(q) = 0
ReturnsEarly(isProc, q) == isProc \/ Len(q) = 0

\* line 61: the while test fails
QueueDrainedEarly(q) == Len(q) <= 1
QueueDrained(q) == Len(q) = 0

\* line 65
WindowExpiredStrict(t, rt) == t > rt
WindowExpired(t, rt) == t >= rt

\* line 71
LimitReachedOffByOne(cnt) == cnt > RateLimit
LimitReached(cnt) == cnt >= RateLimit

\* line 72: waitTime = this.resetTime - now
WaitTimeNone(t, rt) == 0
WaitTime(t, rt) == rt - t

\* line 79: Array.shift
ShiftPop(q) == [unit |-> q[Len(q)], rest |-> SubSeq(q, 1, Len(q) - 1)]
Shift(q) == [unit |-> Head(q), rest |-> Tail(q)]

\* lines 42-47: the queued closure settles the caller's promise of unit u
\* with what requestFn of u produced
ClosureSettleAlwaysResolve(u, oc) == [kind |-> "resolve", of |-> u]
ClosureSettle(u, oc) ==
  [kind |-> IF oc = "value" THEN "resolve" ELSE "reject", of |-> u]

\* lines 42-47: the closure catches everything, so the promise awaited at
\* line 83 is always fulfilled
ClosurePromiseUncaught(oc) == IF oc = "error" THEN "rejected" ELSE "fulfilled"
ClosurePromise(oc) == "fulfilled"

\* line 90
FlagAfterDrainStuck == TRUE
FlagAfterDrain == FALSE

SchedInit ==
  /\ now = 0
  /\ rateLimitQueue = [c \in Clients |-> <<>>]
  /\ isProcessingQueue = [c \in Clients |-> FALSE]
  /\ lastRequestTime = [c \in Clients |-> 0]
  /\ requestCount = [c \in Clients |-> 0]
  /\ resetTime = [c \in Clients |-> NewWindowEnd(0)]
  /\ pc = [c \in Clients |-> "idle"]
  /\ timerDue = [c \in Clients |-> 0]
  /\ current = [c \in Clients |-> 0]
  /\ nextId = 1
  /\ owner = [u \in Units |-> "none"]
  /\ phase = [u \in Units |-> "unsubmitted"]
  /\ outcome = [u \in Units |-> "none"]
  /\ delivered = [u \in Units |-> NotDelivered]
  /\ runs = [u \in Units |-> 0]
  /\ settles = [u \in Units |-> 0]
  /\ startTime = [u \in Units |-> -1]
  /\ settleTime = [c \in Clients |-> -1]
  /\ startOrder = [c \in Clients |-> <<>>]
  /\ settleOrder = [c \in Clients |-> <<>>]
  /\ windowStarts = [c \in Clients |-> 0]
  /\ activeDrains = [c \in Clients |-> 0]

\* lines 79-83 at time t: shift the head, count it, call it; the drain loop
\* is then suspended at "await request()"
StartNext(c, t, q, ph, cnt, rt, ws, ad) ==
  LET s == Shift(q)
      u == s.unit
  IN /\ rateLimitQueue' = [rateLimitQueue EXCEPT ![c] = s.rest]
     /\ requestCount' = [requestCount EXCEPT ![c] = cnt + 1]
     /\ resetTime' = [resetTime EXCEPT ![c] = rt]
     /\ lastRequestTime' = [lastRequestTime EXCEPT ![c] = t]
     /\ isProcessingQueue' = [isProcessingQueue EXCEPT ![c] = TRUE]
     /\ pc' = [pc EXCEPT ![c] = "request"]
     /\ current' = [current EXCEPT ![c] = u]
     /\ timerDue' = [timerDue EXCEPT ![c] = 0]
     /\ phase' = [ph EXCEPT ![u] = "running"]
     /\ runs' = [runs EXCEPT ![u] = @ + 1]
     /\ startTime' = [startTime EXCEPT ![u] = t]
     /\ startOrder' = [startOrder EXCEPT ![c] = Append(@, u)]
     /\ windowStarts' = [windowStarts EXCEPT ![c] = ws + 1]
     /\ activeDrains' = ad

\* lines 61-88 at time t: the while loop from its test to the next await,
\* with queue q
DrainLoop(c, t, q, ph, ad) ==
  IF QueueDrained(q)
  THEN \* line 90
       /\ isProcessingQueue' = [isProcessingQueue EXCEPT ![c] = FlagAfterDrain]
       /\ pc' = [pc EXCEPT ![c] = "idle"]
       /\ current' = [current EXCEPT ![c] = 0]
       /\ timerDue' = [timerDue EXCEPT ![c] = 0]
       /\ rateLimitQueue' = [rateLimitQueue EXCEPT ![c] = q]
       /\ phase' = ph
       /\ activeDrains' = [ad EXCEPT ![c] = @ - 1]
       /\ UNCHANGED <<requestCount, resetTime, lastRequestTime, runs,
                      startTime, startOrder, windowStarts>>
  ELSE LET expired == WindowExpired(t, resetTime[c])
           cnt == IF expired THEN 0 ELSE requestCount[c]
           rt == IF expired THEN NewWindowEnd(t) ELSE resetTime[c]
           ws == IF expired THEN 0 ELSE windowStarts[c]
       IN IF LimitReached(cnt)
          THEN \* lines 72-74: setTimeout(resolve, waitTime)
               /\ pc' = [pc EXCEPT ![c] = "limitWait"]
               /\ timerDue' = [timerDue EXCEPT ![c] = t + WaitTime(t, rt)]
               /\ requestCount' = [requestCount EXCEPT ![c] = cnt]
               /\ resetTime' = [resetTime EXCEPT ![c] = rt]
               /\ windowStarts' = [windowStarts EXCEPT ![c] = ws]
               /\ isProcessingQueue' = [isProcessingQueue EXCEPT ![c] = TRUE]
               /\ current' = [current EXCEPT ![c] = 0]
               /\ rateLimitQueue' = [rateLimitQueue EXCEPT ![c] = q]
               /\ phase' = ph
               /\ activeDrains' = ad
               /\ UNCHANGED <<lastRequestTime, runs, startTime, startOrder>>
          ELSE StartNext(c, t, q, ph, cnt, rt, ws, ad)

\* processQueue (lines 54-91) called at time now with queue q: the guard,
\* then the loop up to its first await
processQueue(c, q, ph) ==
  IF ReturnsEarly(isProcessingQueue[c], q)
  THEN \* lines 55-57
       /\ rateLimitQueue' = [rateLimitQueue EXCEPT ![c] = q]
       /\ phase' = ph
       /\ UNCHANGED <<isProcessingQueue, lastRequestTime, requestCount,
                      resetTime, pc, timerDue, current, runs, startTime,
                      startOrder, windowStarts, activeDrains>>
  ELSE \* line 59 is part of every branch of the loop
       DrainLoop(c, now, q, ph, [activeDrains EXCEPT ![c] = @ + 1])

\* rateLimitRequest (lines 39-52): push the closure, call processQueue
rateLimitRequestCall(c) ==
  /\ nextId <= MaxUnits
  /\ LET u == nextId
     IN /\ nextId' = nextId + 1
        /\ owner' = [owner EXCEPT ![u] = c]
        /\ processQueue(c, Append(rateLimitQueue[c], u),
                        [phase EXCEPT ![u] = "queued"])
  /\ UNCHANGED <<now, outcome, delivered, settles, settleOrder, settleTime>>

\* rateLimitRequest called by a caller other than the prediction engine
rateLimitRequest(c) == rateLimitRequestCall(c) /\ UNCHANGED pred

\* a timer set at time s for d ms runs its callback at a time >= s + d
FireAt(due) == IF now >= due THEN now ELSE due

\* lines 74-77: the rate-limit wait is over; reset the window, then lines 79-83
LimitWaitOver(c) ==
  /\ pc[c] = "limitWait"
  /\ LET t == FireAt(timerDue[c])
     IN /\ now' = t
        /\ StartNext(c, t, rateLimitQueue[c], phase, 0, NewWindowEnd(t), 0,
                     activeDrains)
  /\ UNCHANGED <<nextId, owner, outcome, delivered, settles, settleOrder,
                 settleTime, pred>>

\* lines 43-47 and 83-86: requestFn of the running unit settles after d ms
\* with outcome oc; its closure settles the caller; the drain loop resumes
\* and sets the inter-request timer
UnitSettles(c, oc, d) ==
  /\ pc[c] = "request"
  /\ LET u == current[c]
         t == now + d
     IN /\ now' = t
        /\ outcome' = [outcome EXCEPT ![u] = oc]
        /\ delivered' = [delivered EXCEPT ![u] = ClosureSettle(u, oc)]
        /\ settles' = [settles EXCEPT ![u] = @ + 1]
        /\ settleOrder' = [settleOrder EXCEPT ![c] = Append(@, u)]
        /\ settleTime' = [settleTime EXCEPT ![c] = t]
        /\ phase' = [phase EXCEPT ![u] = "done"]
        /\ current' = [current EXCEPT ![c] = 0]
        /\ IF ClosurePromise(oc) = "fulfilled"
           THEN /\ pc' = [pc EXCEPT ![c] = "delay"]
                /\ timerDue' = [timerDue EXCEPT ![c] = t + Delay(c)]
                /\ UNCHANGED activeDrains
           ELSE \* an exception at line 83 would end processQueue
                /\ pc' = [pc EXCEPT ![c] = "aborted"]
                /\ timerDue' = [timerDue EXCEPT ![c] = 0]
                /\ activeDrains' = [activeDrains EXCEPT ![c] = @ - 1]
  /\ UNCHANGED <<rateLimitQueue, isProcessingQueue, lastRequestTime,
                 requestCount, resetTime, nextId, owner, runs, startTime,
                 startOrder, windowStarts, pred>>

\* lines 86-88 and 61: the inter-request delay is over; back to the loop test
DelayOver(c) ==
  /\ pc[c] = "delay"
  /\ LET t == FireAt(timerDue[c])
     IN /\ now' = t
        /\ DrainLoop(c, t, rateLimitQueue[c], phase, activeDrains)
  /\ UNCHANGED <<nextId, owner, outcome, delivered, settles, settleOrder,
                 settleTime, pred>>

\* time passes with no callback running
Elapse(d) ==
  /\ now + d <= MaxTime
  /\ now' = now + d
  /\ UNCHANGED <<rateLimitQueue, isProcessingQueue, lastRequestTime,
                 requestCount, resetTime, pc, timerDue, current, nextId, owner,
                 phase, outcome, delivered, runs, settles, startTime,
                 settleTime, startOrder, settleOrder, windowStarts,
                 activeDrains, pred>>

(* ------------------- the win-probability step ------------------------- *)

\* a JavaScript number that is an integer, NaN, Infinity or -Infinity
Num(n) == [kind |-> "num", v |-> n]
NaN == [kind |-> "NaN", v |-> 0]
PosInf == [kind |-> "Infinity", v |-> 0]
NegInf == [kind |-> "-Infinity", v |-> 0]
\* a Promise object where a number is expected
Promise == [kind |-> "Promise", v |-> 0]

\* x + y and x - y of JavaScript numbers
JsNeg(x) ==
  IF x.kind = "num" THEN Num(0 - x.v)
  ELSE IF x.kind = "Infinity" THEN NegInf
  ELSE IF x.kind = "-Infinity" THEN PosInf
  ELSE NaN
JsAdd(x, y) ==
  IF x.kind = "NaN" \/ y.kind = "NaN" THEN NaN
  ELSE IF x.kind = "num" /\ y.kind = "num" THEN Num(x.v + y.v)
  ELSE IF x.kind = "num" THEN y
  ELSE IF y.kind = "num" THEN x
  ELSE IF x.kind = y.kind THEN x
  ELSE NaN
JsSub(x, y) == JsAdd(x, JsNeg(y))

\* config.predictionModel.homeFieldAdvantage * 100  (0.03 * 100 = 3 in doubles)
HomeFieldAdvantage == 3
\* calculateMomentum's range
MomentumValues == {10, 25, 50, 75, 90}
OverallValues == 0..100

\* the fields of PredictionMetrics that calculateWinProbabilities reads
MetricsOf(isHomeTeam) ==
  [overall : OverallValues, momentum : MomentumValues,
   homeFieldAdvantage : {IF isHomeTeam THEN HomeFieldAdvantage ELSE 0},
   restAdvantage : {0}]

\* Math.round((a / t) * 100) evaluated in doubles, for a and t given in
\* tenths (both are multiples of 0.5, hence exact doubles).  Math.round
\* rounds a tie towards +Infinity; for the ties k + 0.5 with k in
\* FloatTieLow the double product (a / t) * 100 falls just below k + 0.5.
FloatTieLow == {14, 28, 56, 57, 102}
RoundedShare(a, t) ==
  IF t = 0
  THEN IF a > 0 THEN PosInf ELSE IF a < 0 THEN NegInf ELSE NaN
  ELSE LET n == IF t < 0 THEN 0 - a ELSE a
           d == IF t < 0 THEN 0 - t ELSE t
           k == (100 * n) \div d
           tie == 200 * n = (2 * k + 1) * d
       IN IF tie /\ k \in FloatTieLow THEN Num(k)
          ELSE Num((200 * n + d) \div (2 * d))

\* calculateWinProbabilities (lines 337-363); the bases are kept in tenths.
\* Its third parameter, overallMetrics, is not read.
calculateWinProbabilities(awayMetrics, homeMetrics) ==
  LET awayBase == 10 * awayMetrics.overall
                    + 10 * awayMetrics.restAdvantage
                    + (awayMetrics.momentum - 50)
      homeBase == 10 * homeMetrics.overall
                    + 10 * homeMetrics.homeFieldAdvantage
                    + 10 * homeMetrics.restAdvantage
                    + (homeMetrics.momentum - 50)
      total == awayBase + homeBase
      awayWinProbability == RoundedShare(awayBase, total)
  IN [awayWinProbability |-> awayWinProbability,
      homeWinProbability |-> JsSub(Num(100), awayWinProbability)]

\* predictGame lines 77-78: the two teams' metrics are computed
ChooseMetrics ==
  /\ pred.stage = "idle"
  /\ \E a \in MetricsOf(FALSE), h \in MetricsOf(TRUE) :
        pred' = [stage |-> "metrics", awayMetrics |-> a, homeMetrics |-> h]
  /\ UNCHANGED schedVars

\* predictGame lines 84-88
WinProbabilities ==
  /\ pred.stage = "metrics"
  /\ pred' = [stage |-> "probabilities",
              awayMetrics |-> pred.awayMetrics,
              homeMetrics |-> pred.homeMetrics,
              probabilities |->
                calculateWinProbabilities(pred.awayMetrics, pred.homeMetrics)]
  /\ UNCHANGED schedVars

(* ------------- the prediction engine's batch and weather ------------- *)

\* games of one generatePredictions call
MaxGames == 2

\* (1000 * 60 * 60), OpenWeatherAPI.ts line 149
MsPerHour == 3600000
\* OpenWeatherAPI.ts line 152
MaxForecastHours == 120

\* the teams array handed to generatePredictions: one team whose
\* abbreviation has an entry in config.stadiumCoordinates and one whose
\* abbreviation has none
Teams == {[id |-> "t1", abbreviation |-> "KC"],
          [id |-> "t2", abbreviation |-> "OAK"]}
\* team ids a game can carry; "t3" is in no teams array
GameTeamIds == {"t1", "t2", "t3"}
\* config.stadiumCoordinates, restricted to the abbreviations above
StadiumCoordinates == {"KC", "BUF"}
\* kickoff times (ms): one hour ahead of time 0, and 120 h 30 s ahead
KickoffTimes == {MsPerHour, MaxForecastHours * MsPerHour + 30000}

GameChoices ==
  {g \in [awayTeamId : GameTeamIds, homeTeamId : GameTeamIds,
          gameDate : KickoffTimes] :
     /\ g.awayTeamId # g.homeTeamId
     /\ (g.gameDate # MsPerHour => g.homeTeamId = "t1" /\ g.awayTeamId = "t2")}
GameLists == UNION {[1..n -> GameChoices] : n \in 0..MaxGames}

\* teams.find(t => t.id === id) (PredictionEngine.ts lines 58-59)
TeamFound(id) == \E t \in Teams : t.id = id
FindTeam(id) == CHOOSE t \in Teams : t.id = id

\* OpenWeatherAPI.ts lines 94-99 and 139-144: !coordinates
NoCoordinatesNever(abbr) == FALSE
NoCoordinates(abbr) == abbr \notin StadiumCoordinates

\* OpenWeatherAPI.ts lines 147-152: hoursUntilGame > 120 at time t
TooFarAheadNever(gameDate, t) == FALSE
TooFarAhead(gameDate, t) == gameDate - t > MaxForecastHours * MsPerHour

\* PredictionEngine.ts lines 31 and 44-46: the try/catch around one game
CatchPerGameMissing == FALSE
CatchPerGame == TRUE

\* the state of one generatePredictions call at line 30, about to take
\* game i
AtLoop(games, i, predictions) ==
  [stage |-> "loop", games |-> games, i |-> i, predictions |-> predictions]
\* the same call inside predictGame for game i
InGame(stage, weather, unit) ==
  [stage |-> stage, games |-> pred.games, i |-> pred.i,
   predictions |-> pred.predictions, weather |-> weather, unit |-> unit]

EngineInit ==
  /\ SchedInit
  /\ pred \in {AtLoop(games, 1, <<>>) : games \in GameLists}

CurrentGame == pred.games[pred.i]
HomeTeamAbbr == FindTeam(CurrentGame.homeTeamId).abbreviation

\* generatePredictions lines 30-32 and 44-49, predictGame lines 58-63
NextGame ==
  /\ pred.stage = "loop"
  /\ IF pred.i > Len(pred.games)
     THEN \* line 49
          pred' = [pred EXCEPT !.stage = "returned"]
     ELSE IF TeamFound(CurrentGame.awayTeamId) /\ TeamFound(CurrentGame.homeTeamId)
          THEN \* lines 66-74: on to getGameWeather
               pred' = InGame("getForecast", "null", 0)
          ELSE \* line 62 throws
               IF CatchPerGame
               THEN pred' = AtLoop(pred.games, pred.i + 1, pred.predictions)
               ELSE pred' = [pred EXCEPT !.stage = "rejected"]
  /\ UNCHANGED schedVars

\* getGameWeather line 124: getForecast (OpenWeatherAPI.ts lines 138-157)
\* called on the engine's own weather client
GetForecast ==
  /\ pred.stage = "getForecast"
  /\ IF NoCoordinates(HomeTeamAbbr) \/ TooFarAhead(CurrentGame.gameDate, now)
     THEN \* return null; line 126 then falls back
          /\ pred' = InGame("getCurrentWeather", "null", 0)
          /\ UNCHANGED schedVars
     ELSE /\ rateLimitRequestCall("owPe")
          /\ pred' = InGame("awaitForecast", "null", nextId)

\* getGameWeather line 127: getCurrentWeather (OpenWeatherAPI.ts lines
\* 93-101) called on the engine's own weather client
GetCurrentWeather ==
  /\ pred.stage = "getCurrentWeather"
  /\ IF NoCoordinates(HomeTeamAbbr)
     THEN \* return null; line 130
          /\ pred' = InGame("compute", "null", 0)
          /\ UNCHANGED schedVars
     ELSE /\ rateLimitRequestCall("owPe")
          /\ pred' = InGame("awaitCurrent", "null", nextId)

\* what the closure of a weather unit resolves its caller with: a reading,
\* or null (OpenWeatherAPI.ts lines 110-126 and 166-198)
WeatherValues == {"reading", "null"}

\* the awaited unit has settled; getGameWeather resumes at line 124 or 127
WeatherSettled(w) ==
  /\ pred.stage \in {"awaitForecast", "awaitCurrent"}
  /\ phase[pred.unit] = "done"
  /\ IF delivered[pred.unit].kind = "reject"
     THEN \* lines 131-134
          pred' = InGame("compute", "null", 0)
     ELSE IF w = "null" /\ pred.stage = "awaitForecast"
          THEN \* line 126
               pred' = InGame("getCurrentWeather", "null", 0)
          ELSE pred' = InGame("compute", w, 0)
  /\ UNCHANGED schedVars

\* calculateTeamMetrics line 147: 50 without a reading; with one, what
\* calculateWeatherImpact (lines 285-287) returns, the promise of the async
\* getWeatherImpact
WeatherImpactAlways(weather) == Promise
WeatherImpactOf(weather) == IF weather = "null" THEN Num(50) ELSE Promise

\* predictGame lines 77-119 and generatePredictions lines 33-43
PushPrediction ==
  /\ pred.stage = "compute"
  /\ pred' = AtLoop(pred.games, pred.i + 1,
                    Append(pred.predictions,
                           [gameId |-> pred.i,
                            awayTeamId |-> CurrentGame.awayTeamId,
                            homeTeamId |-> CurrentGame.homeTeamId,
                            weather |-> pred.weather,
                            awayWeatherImpact |-> WeatherImpactOf(pred.weather),
                            homeWeatherImpact |-> WeatherImpactOf(pred.weather)]))
  /\ UNCHANGED schedVars

\* the engine has not been called yet, is waiting for a unit of its weather
\* client, or has returned; otherwise its continuations run before any
\* timer or response
EngineSuspended ==
  \/ pred = AtLoop(pred.games, 1, <<>>)
  \/ pred.stage = "returned"
  \/ /\ pred.stage \in {"awaitForecast", "awaitCurrent"}
     /\ phase[pred.unit] # "done"

(* ------------------- the engine's pure calculators --------------------- *)

\* comparisons and Math.abs of JavaScript numbers (false when one is NaN)
Tier(x) == IF x.kind = "-Infinity" THEN 0 ELSE IF x.kind = "num" THEN 1 ELSE 2
JsLt(x, y) ==
  /\ x.kind # "NaN"
  /\ y.kind # "NaN"
  /\ \/ Tier(x) < Tier(y)
     \/ x.kind = "num" /\ y.kind = "num" /\ x.v < y.v
JsGt(x, y) == JsLt(y, x)
JsGe(x, y) == x.kind # "NaN" /\ y.kind # "NaN" /\ ~JsLt(x, y)
JsLe(x, y) == JsGe(y, x)
JsAbs(x) ==
  IF x.kind = "num" THEN Num(IF x.v < 0 THEN 0 - x.v ELSE x.v)
  ELSE IF x.kind = "NaN" THEN NaN
  ELSE PosInf

\* determineConfidence (PredictionEngine.ts lines 365-371)
determineConfidence(awayProbability, homeProbability) ==
  LET probabilityDiff == JsAbs(JsSub(awayProbability, homeProbability))
  IN IF JsGe(probabilityDiff, Num(25)) THEN "high"
     ELSE IF JsGe(probabilityDiff, Num(15)) THEN "medium"
     ELSE "low"

\* determineRecommendation (PredictionEngine.ts lines 373-383)
determineRecommendationAnyConfidence(awayProbability, homeProbability, confidence) ==
  IF JsGt(awayProbability, homeProbability) THEN "away"
  ELSE IF JsGt(homeProbability, awayProbability) THEN "home"
  ELSE "none"
determineRecommendation(awayProbability, homeProbability, confidence) ==
  IF confidence = "low" THEN "none"
  ELSE IF JsGt(awayProbability, homeProbability) THEN "away"
  ELSE IF JsGt(homeProbability, awayProbability) THEN "home"
  ELSE "none"

\* the probabilities handed to determineConfidence: integers around the
\* thresholds, and the NaN and infinite values calculateWinProbabilities
\* produces for a zero total (and NaN for a NaN overall score)
ProbabilityValues == {Num(n) : n \in 35..65} \cup {NaN, PosInf, NegInf}
ProbabilityPairs ==
  {p \in [awayWinProbability : ProbabilityValues,
          homeWinProbability : ProbabilityValues] :
     \/ p.awayWinProbability.kind = "num" /\ p.homeWinProbability.kind = "num"
     \/ p.homeWinProbability = JsSub(Num(100), p.awayWinProbability)}
ProbabilityInputs == [stage : {"probabilities"}, probabilities : ProbabilityPairs]

\* predictGame line 91
DetermineConfidence ==
  /\ pred.stage = "probabilities"
  /\ pred' = [stage |-> "confidence",
              probabilities |-> pred.probabilities,
              confidence |->
                determineConfidence(pred.probabilities.awayWinProbability,
                                    pred.probabilities.homeWinProbability)]
  /\ UNCHANGED schedVars

\* predictGame line 94
DetermineRecommendation ==
  /\ pred.stage = "confidence"
  /\ pred' = [stage |-> "recommendation",
              probabilities |-> pred.probabilities,
              confidence |-> pred.confidence,
              recommendation |->
                determineRecommendation(pred.probabilities.awayWinProbability,
                                        pred.probabilities.homeWinProbability,
                                        pred.confidence)]
  /\ UNCHANGED schedVars

\* injuries of one team in one provider response
MaxInjuries == 2

\* a player's position and the status string in the provider's
\* player_injuries payload
Positions == {"QB", "CB", "K"}
ProviderStatuses == {"Out", "IR", "PUP", "Doubtful", "Questionable", "Probable"}
ProviderInjuries ==
  UNION {[1..n -> [position : Positions, status : ProviderStatuses]] :
           n \in 0..MaxInjuries}

\* String.prototype.toLowerCase on the provider's status strings
ToLowerCase(str) ==
  CASE str = "Out" -> "out"
    [] str = "IR" -> "ir"
    [] str = "PUP" -> "pup"
    [] str = "Doubtful" -> "doubtful"
    [] str = "Questionable" -> "questionable"
    [] str = "Probable" -> "probable"
    [] OTHER -> str

\* mapInjuryStatus (MySportsFeedsAPI.ts lines 277-293)
mapInjuryStatus(status) ==
  LET l == ToLowerCase(status)
  IN IF l \in {"questionable", "doubtful", "out", "pup"} THEN l
     ELSE IF l \in {"ir", "injured-reserve"} THEN "injured-reserve"
     ELSE "healthy"

\* getPlayerInjuries (MySportsFeedsAPI.ts lines 236-247): the record built
\* for a provider injury has the fields of PlayerInjury, and no position
getPlayerInjuries(playerInjuries) ==
  [j \in 1..Len(playerInjuries) |->
     [status |-> mapInjuryStatus(playerInjuries[j].status)]]

\* injury.position read from a PlayerInjury record
PositionOf(injury) ==
  IF "position" \in DOMAIN injury THEN injury.position ELSE "undefined"

\* Math.round(n / d) for n >= 0 and d > 0
RoundDiv(n, d) == (2 * n + d) \div (2 * d)

\* calculateInjuryImpact (PredictionEngine.ts lines 238-283)
InjuryWeight(injury) ==
  IF PositionOf(injury) \in {"QB", "RB", "WR", "TE"} THEN 3
  ELSE IF PositionOf(injury) \in {"DE", "DT", "LB", "CB", "S"} THEN 2
  ELSE 1
InjurySeverity(injury) ==
  CASE injury.status = "out" -> 0
    [] injury.status = "doubtful" -> 25
    [] injury.status = "questionable" -> 50
    [] injury.status = "injured-reserve" -> 0
    [] injury.status = "pup" -> 0
    [] OTHER -> 100
RECURSIVE TotalImpact(_, _)
TotalImpact(injuries, n) ==
  IF n = 0 THEN 0
  ELSE TotalImpact(injuries, n - 1)
         + InjurySeverity(injuries[n]) * InjuryWeight(injuries[n])
RECURSIVE TotalWeight(_, _)
TotalWeight(injuries, n) ==
  IF n = 0 THEN 0
  ELSE TotalWeight(injuries, n - 1) + InjuryWeight(injuries[n])
calculateInjuryImpact(injuries) ==
  IF Len(injuries) = 0 THEN 100
  ELSE LET totalImpact == TotalImpact(injuries, Len(injuries))
           totalWeight == TotalWeight(injuries, Len(injuries))
       IN IF totalWeight > 0 THEN RoundDiv(totalImpact, totalWeight) ELSE 100

InjuryInputs == [stage : {"playerInjuries"}, playerInjuries : ProviderInjuries]

\* DataCollectionService.ts line 147: the injuries phase
GetPlayerInjuries ==
  /\ pred.stage = "playerInjuries"
  /\ pred' = [stage |-> "injuries",
              playerInjuries |-> pred.playerInjuries,
              injuries |-> getPlayerInjuries(pred.playerInjuries)]
  /\ UNCHANGED schedVars

\* calculateTeamMetrics line 146
CalculateInjuryImpact ==
  /\ pred.stage = "injuries"
  /\ pred' = [stage |-> "injuryImpact",
              playerInjuries |-> pred.playerInjuries,
              injuries |-> pred.injuries,
              injuryImpact |-> calculateInjuryImpact(pred.injuries)]
  /\ UNCHANGED schedVars

\* a GameWeather reading: temperature, windSpeed and visibility as numbers
\* (NaN stands for a value the provider response lacks), precipitation in
\* hundredths (0 when the response has none), and the condition label
Temperatures == {NaN} \cup {Num(n) : n \in {10, 20, 25, 30, 40, 50, 70, 80, 83, 85, 88, 90, 95}}
WindSpeeds == {NaN} \cup {Num(n) : n \in {5, 10, 20, 25, 30, 35}}
Precipitations == {Num(n) : n \in {0, 5, 10, 30, 50, 60}}
Visibilities == {NaN} \cup {Num(n) : n \in {4, 5, 10}}
Conditions == {"Thunderstorm", "Rain", "Clear", "Clouds", "Unknown"}
Readings ==
  [temperature : Temperatures, windSpeed : WindSpeeds,
   precipitation : Precipitations, visibility : Visibilities,
   conditions : Conditions]

\* OpenWeatherAPI.ts line 268: Math.max(0, Math.min(100, impact))
ClampNone(impact) == impact
Clamp(impact) ==
  LET m == IF impact < 100 THEN impact ELSE 100
  IN IF m > 0 THEN m ELSE 0

\* getWeatherImpact (OpenWeatherAPI.ts lines 211-269): the number its
\* promise is fulfilled with
TemperatureImpact(t) ==
  IF JsGe(t, Num(50)) /\ JsLe(t, Num(70)) THEN 20
  ELSE IF JsGe(t, Num(40)) /\ JsLe(t, Num(80)) THEN 10
  ELSE IF JsLt(t, Num(20)) \/ JsGt(t, Num(90)) THEN 0 - 30
  ELSE IF JsLt(t, Num(30)) \/ JsGt(t, Num(85)) THEN 0 - 15
  ELSE 0
WindImpact(w) ==
  IF JsLt(w, Num(10)) THEN 15
  ELSE IF JsLt(w, Num(20)) THEN 5
  ELSE IF JsGt(w, Num(30)) THEN 0 - 25
  ELSE IF JsGt(w, Num(20)) THEN 0 - 10
  ELSE 0
PrecipitationImpact(p) ==
  IF p = Num(0) THEN 15
  ELSE IF JsLt(p, Num(10)) THEN 5
  ELSE IF JsGt(p, Num(50)) THEN 0 - 20
  ELSE IF JsGt(p, Num(10)) THEN 0 - 10
  ELSE 0
VisibilityImpact(v) ==
  IF JsGe(v, Num(10)) THEN 10
  ELSE IF JsLt(v, Num(5)) THEN 0 - 15
  ELSE 0
ConditionsImpact(c) ==
  IF c \in {"Thunderstorm", "Snow", "Sleet", "Hail"} THEN 0 - 25
  ELSE IF c \in {"Rain", "Drizzle", "Mist", "Fog"} THEN 0 - 10
  ELSE IF c = "Clear" THEN 10
  ELSE 0
RawWeatherImpact(weather) ==
  50 + TemperatureImpact(weather.temperature) + WindImpact(weather.windSpeed)
     + PrecipitationImpact(weather.precipitation)
     + VisibilityImpact(weather.visibility)
     + ConditionsImpact(weather.conditions)
getWeatherImpact(weather) == Clamp(RawWeatherImpact(weather))

ReadingInputs == [stage : {"reading"}, weather : Readings]

\* a call of getWeatherImpact, its promise fulfilled
GetWeatherImpact ==
  /\ pred.stage = "reading"
  /\ pred' = [stage |-> "weatherImpact", weather |-> pred.weather,
              weatherImpact |-> getWeatherImpact(pred.weather)]
  /\ UNCHANGED schedVars

\* entries of one forecast response
MaxForecasts == 3

\* forecast.dt (seconds) of the entries of response.data.list, and
\* gameDateTime.getTime() (ms)
ForecastDts == {0, 10800, 21600}
GameTimes == {5400000, 10800000, 30000000}
ForecastLists == UNION {[1..n -> ForecastDts] : n \in 0..MaxForecasts}

\* OpenWeatherAPI.ts line 176; smallestDiff is Infinity until an entry has
\* been taken (closest = 0)
CloserOrEqual(diff, best) == best.closest = 0 \/ diff <= best.smallestDiff
Closer(diff, best) == best.closest = 0 \/ diff < best.smallestDiff

\* OpenWeatherAPI.ts lines 168-180: the loop over the first n entries
RECURSIVE ClosestAfter(_, _, _)
ClosestAfter(list, gameTime, n) ==
  IF n = 0 THEN [closest |-> 0, smallestDiff |-> 0]
  ELSE LET best == ClosestAfter(list, gameTime, n - 1)
           forecastTime == list[n] * 1000
           diff == IF forecastTime >= gameTime THEN forecastTime - gameTime
                   ELSE gameTime - forecastTime
       IN IF Closer(diff, best)
          THEN [closest |-> n, smallestDiff |-> diff]
          ELSE best
\* OpenWeatherAPI.ts lines 166-198: the index of the entry the reading is
\* built from, 0 for null
closestForecast(list, gameTime) == ClosestAfter(list, gameTime, Len(list)).closest

ForecastInputs == [stage : {"forecastList"}, list : ForecastLists, gameTime : GameTimes]

\* the closure of getForecast once the response has arrived
SelectForecast ==
  /\ pred.stage = "forecastList"
  /\ pred' = [stage |-> "forecast", list |-> pred.list,
              gameTime |-> pred.gameTime,
              closest |-> closestForecast(pred.list, pred.gameTime)]
  /\ UNCHANGED schedVars

\* the metrics generateFactors compares: pairs (away, home) of each
\* sub-score around its threshold, any two momentum values, and the home
\* team's home-field bonus
StrengthPairs == {<<50, 50>>, <<59, 50>>, <<60, 50>>, <<61, 50>>, <<50, 60>>, <<50, 61>>}
PowerPairs == {<<50, 50>>, <<65, 50>>, <<66, 50>>, <<50, 65>>, <<50, 66>>}
InjuryPairs == {<<100, 100>>, <<80, 100>>, <<79, 100>>, <<100, 80>>, <<100, 79>>}
\* `reading` is FALSE for a null reading
FactorWeathers ==
  {[reading |-> FALSE, conditions |-> "none", windSpeed |-> 0],
   [reading |-> TRUE, conditions |-> "Rain", windSpeed |-> 25],
   [reading |-> TRUE, conditions |-> "Clear", windSpeed |-> 20]}
FactorInputs ==
  [stage : {"factorMetrics"}, teamStrength : StrengthPairs,
   offensivePower : PowerPairs, defensivePower : {<<50, 50>>, <<50, 66>>},
   injuryImpact : InjuryPairs, momentum : MomentumValues \X MomentumValues,
   weather : FactorWeathers]

\* one if / else-if pair of generateFactors: `a > h + by`, else `h > a + by`
FactorOf(pair, by, name) ==
  IF pair[1] > pair[2] + by THEN <<"away " \o name>>
  ELSE IF pair[2] > pair[1] + by THEN <<"home " \o name>>
  ELSE <<>>

\* generateFactors (PredictionEngine.ts lines 385-445); each entry is named
\* by the team it speaks of and its subject
generateFactors(m) ==
  FactorOf(m.teamStrength, 10, "strength")
  \o FactorOf(m.offensivePower, 15, "offense")
  \o FactorOf(m.defensivePower, 15, "defense")
  \o (IF m.injuryImpact[1] < m.injuryImpact[2] - 20 THEN <<"away injuries">>
      ELSE IF m.injuryImpact[2] < m.injuryImpact[1] - 20 THEN <<"home injuries">>
      ELSE <<>>)
  \o (IF m.weather.reading /\ m.weather.conditions \in {"Rain", "Snow"}
      THEN <<"weather conditions">> ELSE <<>>)
  \o (IF m.weather.reading /\ m.weather.windSpeed > 20
      THEN <<"high winds">> ELSE <<>>)
  \o (IF HomeFieldAdvantage > 0 THEN <<"home field">> ELSE <<>>)
  \o FactorOf(m.momentum, 20, "momentum")

\* predictGame line 97
GenerateFactors ==
  /\ pred.stage = "factorMetrics"
  /\ pred' = [stage |-> "factors", metrics |-> pred,
              factors |-> generateFactors(pred)]
  /\ UNCHANGED schedVars

\* a team's TeamStats row, or none (`stats` undefined): games played and
\* won, points, yards, and the percentage pairs (third down, red zone) of
\* the offense and of the defense, takeaways and sacks
NoStats == [present |-> FALSE]
GamesAndWins ==
  {<<0, 0>>, <<2, 0>>, <<2, 1>>, <<2, 2>>,
   <<4, 0>>, <<4, 1>>, <<4, 2>>, <<4, 3>>, <<4, 4>>}
TeamStatsRows ==
  {[present |-> TRUE, gamesPlayed |-> gw[1], wins |-> gw[2],
    pointsFor |-> pf, pointsAgainst |-> pa,
    totalYards |-> ty, totalYardsAllowed |-> tya,
    thirdDownPercentage |-> o[1], redZonePercentage |-> o[2],
    thirdDownPercentageAllowed |-> d[1], redZonePercentageAllowed |-> d[2],
    takeaways |-> t[1], sacks |-> t[2]] :
     gw \in GamesAndWins, pf \in {0, 200}, pa \in {0, 200},
     ty \in {0, 2000}, tya \in {0, 2000},
     o \in {<<0, 0>>, <<45, 60>>, <<100, 100>>},
     d \in {<<0, 0>>, <<100, 100>>}, t \in {<<0, 0>>, <<10, 30>>}}
\* the team's injury list: empty, or one player out or questionable
MetricInjuries ==
  {getPlayerInjuries(l) :
     l \in {<<>>, <<[position |-> "QB", status |-> "Out"]>>,
            <<[position |-> "QB", status |-> "Questionable"]>>}}
TeamMetricsInputs ==
  [stage : {"teamStats"}, stats : {NoStats} \cup TeamStatsRows,
   injuries : MetricInjuries, weather : WeatherValues, isHomeTeam : BOOLEAN]

Min(a, b) == IF a < b THEN a ELSE b
Max(a, b) == IF a > b THEN a ELSE b

\* calculateTeamStrength (PredictionEngine.ts lines 176-186); the quotients
\* by gamesPlayed are kept as numerators (pointDiff is normalizedPointDiff
\* times gamesPlayed).  On the rows of TeamStatsRows the doubles round as
\* the exact values do.
calculateTeamStrength(stats) ==
  IF ~stats.present THEN 50
  ELSE IF stats.gamesPlayed > 0
  THEN LET g == stats.gamesPlayed
           pointDiff == Max(0, Min(100 * g,
                          50 * g + 2 * (stats.pointsFor - stats.pointsAgainst)))
       IN RoundDiv(7 * 100 * stats.wins + 3 * pointDiff, 10 * g)
  ELSE RoundDiv(7 * 50 + 3 * 50, 10)

\* calculateOffensivePower (lines 188-208): points is normalizedPoints
\* times 30 * gamesPlayed, yards is normalizedYards times 400 * gamesPlayed
calculateOffensivePower(stats) ==
  IF ~stats.present \/ stats.gamesPlayed = 0 THEN 50
  ELSE LET g == stats.gamesPlayed
           points == Min(3000 * g, 100 * stats.pointsFor)
           yards == Min(40000 * g, 100 * stats.totalYards)
       IN RoundDiv(4 * 40 * points + 3 * 3 * yards
                     + 1200 * g * (2 * stats.thirdDownPercentage
                                     + stats.redZonePercentage),
                   10 * 1200 * g)

\* calculateDefensivePower (lines 210-236), with the same numerators;
\* takeaways and sacks are normalizedTakeaways and normalizedSacks times
\* gamesPlayed
calculateDefensivePower(stats) ==
  IF ~stats.present \/ stats.gamesPlayed = 0 THEN 50
  ELSE LET g == stats.gamesPlayed
           points == Max(0, 3000 * g - 100 * stats.pointsAgainst)
           yards == Max(0, 40000 * g - 100 * stats.totalYardsAllowed)
           thirdDown == 100 - stats.thirdDownPercentageAllowed
           redZone == 100 - stats.redZonePercentageAllowed
           takeaways == Min(100 * g, 50 * stats.takeaways)
           sacks == Min(100 * g, 20 * stats.sacks)
       IN RoundDiv(30 * 40 * points + 25 * 3 * yards
                     + 1200 * g * (20 * thirdDown + 15 * redZone)
                     + 1200 * (5 * takeaways + 5 * sacks),
                   100 * 1200 * g)

\* calculateScheduleStrength (lines 289-295)
calculateScheduleStrength(stats) ==
  IF ~stats.present THEN 50 ELSE calculateTeamStrength(stats)

\* calculateRestAdvantage (lines 297-303)
calculateRestAdvantage(stats) == 0

\* calculateMomentum (lines 305-317)
calculateMomentum(stats) ==
  IF ~stats.present \/ stats.gamesPlayed < 3 THEN 50
  ELSE LET w == stats.wins
           g == stats.gamesPlayed
       IN IF 4 * w >= 3 * g THEN 90
          ELSE IF 5 * w >= 3 * g THEN 75
          ELSE IF 5 * w >= 2 * g THEN 50
          ELSE IF 4 * w >= g THEN 25
          ELSE 10

\* calculateTeamMetrics (lines 137-174): a Promise times 0.10 is NaN, and so
\* is every sum with it
calculateTeamMetrics(stats, injuries, weather, isHomeTeam) ==
  LET teamStrength == calculateTeamStrength(stats)
      offensivePower == calculateOffensivePower(stats)
      defensivePower == calculateDefensivePower(stats)
      injuryImpact == calculateInjuryImpact(injuries)
      weatherImpact == WeatherImpactOf(weather)
      scheduleStrength == calculateScheduleStrength(stats)
      overall ==
        IF weatherImpact.kind = "num"
        THEN Num(RoundDiv(25 * teamStrength + 20 * offensivePower
                            + 20 * defensivePower + 15 * injuryImpact
                            + 10 * weatherImpact.v + 10 * scheduleStrength,
                          100))
        ELSE NaN
  IN [teamStrength |-> teamStrength, offensivePower |-> offensivePower,
      defensivePower |-> defensivePower, injuryImpact |-> injuryImpact,
      weatherImpact |-> weatherImpact, scheduleStrength |-> scheduleStrength,
      homeFieldAdvantage |-> IF isHomeTeam THEN HomeFieldAdvantage ELSE 0,
      restAdvantage |-> calculateRestAdvantage(stats),
      momentum |-> calculateMomentum(stats), overall |-> overall]

\* predictGame lines 77-78
CalculateTeamMetrics ==
  /\ pred.stage = "teamStats"
  /\ pred' = [stage |-> "teamMetrics", input |-> pred,
              metrics |-> calculateTeamMetrics(pred.stats, pred.injuries,
                                               pred.weather, pred.isHomeTeam)]
  /\ UNCHANGED schedVars

CalcInit ==
  /\ SchedInit
  /\ pred \in ProbabilityInputs \cup InjuryInputs \cup ReadingInputs
                \cup ForecastInputs \cup FactorInputs \cup TeamMetricsInputs

(* ------------------ DataCollectionService.collectAllData --------------- *)

\* the four phases of line 44, in the order their calls are made
PhaseNames == <<"teams", "games", "stats", "injuries">>

\* a collectAllData call about to reach line 44: `started` phases have
\* made their provider call, unitOf[k] is the unit of phase k, status[k] its
\* outcome, updateLogs the (dataType, status) pairs of this.updateLogs,
\* result the state of the promise collectAllData returned
CollectStart(enableWeatherUpdates) ==
  [stage |-> "promiseAll", started |-> 0, unitOf |-> <<0, 0, 0, 0>>,
   status |-> <<"pending", "pending", "pending", "pending">>,
   updateLogs |-> <<>>, result |-> "pending",
   enableWeatherUpdates |-> enableWeatherUpdates,
   weatherData |-> FALSE, predictions |-> FALSE, database |-> FALSE]

CollectInit ==
  /\ SchedInit
  /\ pred \in {CollectStart(e) : e \in BOOLEAN}

\* lines 45-48: collectTeams, collectGames, collectTeamStats and
\* collectPlayerInjuries (lines 102-156) each run up to the await of their
\* provider call, which submits one unit to the statistics client
CollectPhase ==
  /\ pred.stage = "promiseAll"
  /\ pred.started < Len(PhaseNames)
  /\ rateLimitRequestCall("msf")
  /\ pred' = [pred EXCEPT !.started = @ + 1,
                          !.unitOf[pred.started + 1] = nextId]

\* Promise.all (line 44) rejects as soon as one of its promises rejects
RejectsOnFailureNever(ok) == FALSE
RejectsOnFailure(ok) == ~ok

\* the unit of phase k has settled: the phase logs its success or failure
\* (lines 107, 111, ...) and returns or rethrows; the first failure rejects
\* Promise.all and runs the catch of lines 86-99; the last success resumes
\* collectAllData at line 52
PhaseSettled(k) ==
  /\ pred.status[k] = "pending"
  /\ pred.unitOf[k] # 0
  /\ phase[pred.unitOf[k]] = "done"
  /\ LET ok == delivered[pred.unitOf[k]].kind # "reject"
         st == IF ok THEN "success" ELSE "failed"
         status == [pred.status EXCEPT ![k] = st]
         logged == [pred EXCEPT !.status = status,
                                !.updateLogs = Append(@, <<PhaseNames[k], st>>)]
     IN pred' =
          IF pred.stage = "promiseAll" /\ RejectsOnFailure(ok)
          THEN [logged EXCEPT !.stage = "settled", !.result = "rejected",
                              !.updateLogs = Append(@, <<"comprehensive", "failed">>)]
          ELSE IF pred.stage = "promiseAll"
                  /\ \A j \in 1..Len(PhaseNames) : status[j] = "success"
          THEN [logged EXCEPT !.stage = "collectWeatherData"]
          ELSE logged
  /\ UNCHANGED schedVars

\* line 52, collectWeatherData (lines 158-212): getTeamAbbreviation (lines
\* 275-284) knows no team, so no weather call is made
CollectWeatherData ==
  /\ pred.stage = "collectWeatherData"
  /\ pred' = [pred EXCEPT !.stage = "generatePredictions",
                          !.weatherData = TRUE,
                          !.updateLogs =
                            IF pred.enableWeatherUpdates
                            THEN Append(@, <<"weather", "success">>) ELSE @]
  /\ UNCHANGED schedVars

\* line 55, generatePredictions (lines 214-236), the engine's run taken as
\* one step
GeneratePredictions ==
  /\ pred.stage = "generatePredictions"
  /\ pred' = [pred EXCEPT !.stage = "updateDatabase",
                          !.predictions = TRUE,
                          !.updateLogs = Append(@, <<"predictions", "success">>)]
  /\ UNCHANGED schedVars

\* lines 58-84
UpdateDatabase ==
  /\ pred.stage = "updateDatabase"
  /\ pred' = [pred EXCEPT !.stage = "settled", !.result = "resolved",
                          !.database = TRUE,
                          !.updateLogs = Append(@, <<"comprehensive", "success">>)]
  /\ UNCHANGED schedVars

\* collectAllData is between two of its four calls of line 44, or the
\* continuation of a settled unit is due: these run before any timer or
\* response
CollectSuspended ==
  /\ pred.started \in {0, Len(PhaseNames)}
  /\ \A k \in 1..Len(PhaseNames) :
       ~(/\ pred.status[k] = "pending"
         /\ pred.unitOf[k] # 0
         /\ phase[pred.unitOf[k]] = "done")

(* ----------------------------- DataScheduler --------------------------- *)

\* triggers (start, cron firings, manual requests) of one DataScheduler
MaxTriggers == 4

CronKinds == {"hourly", "daily", "weekly"}

\* a DataScheduler after construction (logger.ts lines 134-139): runs lists
\* the collection runs begun, each in progress until its collection has
\* settled; events lists what each trigger did
SchedulerStart ==
  [stage |-> "scheduler", isRunning |-> FALSE, started |-> FALSE,
   runs |-> <<>>, events |-> <<>>]

DataSchedulerInit ==
  /\ SchedInit
  /\ pred = SchedulerStart

BeginRun(kind) == Append(pred.runs, [kind |-> kind, state |-> "running"])

\* start (lines 141-172): runInitialCollection (lines 174-182) reads and
\* writes no isRunning
StartScheduler ==
  /\ ~pred.started
  /\ Len(pred.events) < MaxTriggers
  /\ pred' = [pred EXCEPT !.started = TRUE,
                          !.runs = BeginRun("initial"),
                          !.events = Append(@, "initial")]
  /\ UNCHANGED schedVars

\* a cron firing: runHourlyCollection, runDailyCollection and
\* runWeeklyCollection (lines 184-296) up to their first await
CronTrigger(kind) ==
  /\ pred.started
  /\ Len(pred.events) < MaxTriggers
  /\ IF pred.isRunning
     THEN pred' = [pred EXCEPT !.events = Append(@, "skipped")]
     ELSE pred' = [pred EXCEPT !.isRunning = TRUE,
                               !.runs = BeginRun(kind),
                               !.events = Append(@, kind)]
  /\ UNCHANGED schedVars

\* runManualCollection (lines 298-313) up to its first await; the throw of
\* line 300 is outside the try of line 306
ManualTrigger ==
  /\ Len(pred.events) < MaxTriggers
  /\ IF pred.isRunning
     THEN pred' = [pred EXCEPT !.events = Append(@, "Data collection already running")]
     ELSE pred' = [pred EXCEPT !.isRunning = TRUE,
                               !.runs = BeginRun("manual"),
                               !.events = Append(@, "manual")]
  /\ UNCHANGED schedVars

\* the collection of run r has settled: the catch and finally blocks
\* (lines 179-181, 202-210, 241-249, 287-295, 318-327)
RunSettles(r, ok) ==
  /\ r \in 1..Len(pred.runs)
  /\ pred.runs[r].state = "running"
  /\ pred' = [pred EXCEPT !.runs[r].state = IF ok THEN "finished" ELSE "failed",
                          !.isRunning = IF pred.runs[r].kind = "initial"
                                        THEN @ ELSE FALSE]
  /\ UNCHANGED schedVars

\* stop (lines 330-335)
Stop ==
  /\ pred.started
  /\ pred.isRunning
  /\ pred' = [pred EXCEPT !.isRunning = FALSE]
  /\ UNCHANGED schedVars

(* ---------------------- OpenWeatherAPI.getBulkWeather ------------------ *)

\* abbreviations in one getBulkWeather request
MaxBulkTeams == 4
\* batchSize of line 281 (10 in the source), scaled to the request lengths
BatchSize == 2
\* line 303: the pause between two sub-batches (ms)
BatchPause == 1000

\* the abbreviations requested: two with stadium coordinates, one without
BulkAbbreviations == {"KC", "BUF", "OAK"}
BulkRequests == UNION {[1..n -> BulkAbbreviations] : n \in 0..MaxBulkTeams}

\* the empty `results` record of line 278
NoResults == [t \in {} |-> "null"]

\* a getBulkWeather call at line 282: i is the first index (from 1) of the
\* sub-batch at hand, j the next team of it whose closure (lines 285-293)
\* is to be called, unitOf[n] the unit of the n-th team's call (0: none),
\* got[n] what its closure returned, results the record of line 278
BulkStart(teamAbbreviations) ==
  [stage |-> "map", teamAbbreviations |-> teamAbbreviations, i |-> 1, j |-> 1,
   unitOf |-> [n \in 1..Len(teamAbbreviations) |-> 0],
   got |-> [n \in 1..Len(teamAbbreviations) |-> "pending"],
   results |-> NoResults, pauseDue |-> 0]

BulkInit ==
  /\ SchedInit
  /\ pred \in {BulkStart(r) : r \in BulkRequests}

\* the indices of batch = teamAbbreviations.slice(i, i + batchSize)
Batch(p) == {n \in 1..Len(p.teamAbbreviations) : n >= p.i /\ n < p.i + BatchSize}

\* lines 297-299: every entry of the sub-batch is written, in index order
BatchResults(p) ==
  LET batchTeams == {p.teamAbbreviations[n] : n \in Batch(p)}
      LastOf(t) == CHOOSE n \in Batch(p) :
                     /\ p.teamAbbreviations[n] = t
                     /\ \A m \in Batch(p) : p.teamAbbreviations[m] = t => m <= n
  IN [t \in DOMAIN p.results \cup batchTeams |->
        IF t \in batchTeams THEN p.got[LastOf(t)] ELSE p.results[t]]

\* lines 295-307 once every closure of the sub-batch has returned, at time t
AfterBatch(p, t) ==
  IF \E n \in Batch(p) : p.got[n] = "pending" THEN p
  ELSE IF p.i + BatchSize <= Len(p.teamAbbreviations)
  THEN [p EXCEPT !.stage = "pause", !.results = BatchResults(p),
                 !.pauseDue = t + BatchPause]
  ELSE [p EXCEPT !.stage = "returned", !.results = BatchResults(p)]

\* line 282 or 305: the loop test, and the sub-batch's closures called
Mapped(p) ==
  IF p.j \in Batch(p) THEN p
  ELSE AfterBatch([p EXCEPT !.stage = "awaitAll"], now)

\* lines 285-287: the closure of team j calls getCurrentWeather (lines
\* 93-101), which returns null for a team without coordinates and submits
\* one unit otherwise
BulkCall ==
  /\ pred.stage = "map"
  /\ IF pred.j \notin Batch(pred)
     THEN \* an empty request
          /\ pred' = Mapped(pred)
          /\ UNCHANGED schedVars
     ELSE IF NoCoordinates(pred.teamAbbreviations[pred.j])
          THEN /\ pred' = Mapped([pred EXCEPT !.got[pred.j] = "null",
                                              !.j = @ + 1])
               /\ UNCHANGED schedVars
          ELSE /\ rateLimitRequestCall("owDcs")
               /\ pred' = Mapped([pred EXCEPT !.unitOf[pred.j] = nextId,
                                              !.j = @ + 1])

\* lines 287-292: the unit of team n has settled; its closure returns the
\* reading or null the call resolved with, or null when the call failed
CatchPerTeamMissing == FALSE
CatchPerTeam == TRUE
BulkSettled(n, w) ==
  /\ pred.stage = "awaitAll"
  /\ n \in Batch(pred)
  /\ pred.got[n] = "pending"
  /\ pred.unitOf[n] # 0
  /\ phase[pred.unitOf[n]] = "done"
  /\ IF delivered[pred.unitOf[n]].kind = "reject"
     THEN IF CatchPerTeam
          THEN pred' = AfterBatch([pred EXCEPT !.got[n] = "null"], now)
          ELSE \* Promise.all and getBulkWeather would reject
               pred' = [pred EXCEPT !.got[n] = "rejected", !.stage = "rejected"]
     ELSE pred' = AfterBatch([pred EXCEPT !.got[n] = w], now)
  /\ UNCHANGED schedVars

\* line 303: the pause is over; no timer of the client is due before it
BulkPauseOver ==
  /\ pred.stage = "pause"
  /\ ~(pc["owDcs"] \in {"delay", "limitWait"} /\ timerDue["owDcs"] <= pred.pauseDue)
  /\ FireAt(pred.pauseDue) <= MaxTime
  /\ now' = FireAt(pred.pauseDue)
  /\ pred' = [pred EXCEPT !.stage = "map", !.i = pred.i + BatchSize,
                          !.j = pred.i + BatchSize]
  /\ UNCHANGED <<rateLimitQueue, isProcessingQueue, lastRequestTime,
                 requestCount, resetTime, pc, timerDue, current, nextId, owner,
                 phase, outcome, delivered, runs, settles, startTime,
                 settleTime, startOrder, settleOrder, windowStarts,
                 activeDrains>>

\* getBulkWeather is calling the closures of a sub-batch, or the
\* continuation of a settled unit is due
BulkSuspended ==
  /\ pred.stage # "map"
  /\ \A n \in 1..Len(pred.teamAbbreviations) :
       ~(/\ pred.stage = "awaitAll"
         /\ pred.got[n] = "pending"
         /\ pred.unitOf[n] # 0
         /\ phase[pred.unitOf[n]] = "done")

(* -------------------------- specifications ---------------------------- *)

Init == SchedInit /\ pred = PredIdle

\* Scheduler instances share no state: Spec follows one instance at a time,
\* the statistics client or a weather client
Solo(c) == \A u \in Units : owner[u] \in {"none", c}
SoloClients == {"msf", "owDcs"}

Next ==
  \/ \E c \in SoloClients : Solo(c) /\ rateLimitRequest(c)
  \/ \E c \in SoloClients : LimitWaitOver(c)
  \/ \E c \in SoloClients, oc \in Outcomes, d \in UnitDurations :
        UnitSettles(c, oc, d)
  \/ \E c \in SoloClients : DelayOver(c)
  \/ \E d \in ElapseSteps : Elapse(d)

Spec == Init /\ [][Next]_vars

\* one weather client, under fair scheduling: a timer that is due fires and
\* a started unit settles
FairNext ==
  \/ rateLimitRequest("owDcs")
  \/ LimitWaitOver("owDcs")
  \/ \E oc \in Outcomes, d \in UnitDurations : UnitSettles("owDcs", oc, d)
  \/ DelayOver("owDcs")
  \/ \E d \in ElapseSteps : Elapse(d)

FairSpec ==
  /\ Init /\ [][FairNext]_vars
  /\ WF_vars(LimitWaitOver("owDcs"))
  /\ WF_vars(DelayOver("owDcs"))
  /\ WF_vars(\E oc \in Outcomes, d \in UnitDurations :
                UnitSettles("owDcs", oc, d))

\* the two weather clients of one DataCollectionService (its own and its
\* PredictionEngine's), every unit succeeding at once
WeatherClients == {c \in Clients : Provider(c) = "weather"}

ProviderNext ==
  \/ \E c \in WeatherClients : rateLimitRequest(c)
  \/ \E c \in WeatherClients : LimitWaitOver(c)
  \/ \E c \in WeatherClients : UnitSettles(c, "value", 0)
  \/ \E c \in WeatherClients : DelayOver(c)
  \/ \E d \in ElapseSteps : Elapse(d)

ProviderSpec == Init /\ [][ProviderNext]_vars

PredNext == ChooseMetrics \/ WinProbabilities

PredSpec == Init /\ [][PredNext]_vars

\* one generatePredictions call and the weather client of its engine
EngineNext ==
  \/ NextGame
  \/ GetForecast
  \/ GetCurrentWeather
  \/ \E w \in WeatherValues : WeatherSettled(w)
  \/ PushPrediction
  \/ EngineSuspended /\ LimitWaitOver("owPe")
  \/ EngineSuspended /\ \E oc \in Outcomes : UnitSettles("owPe", oc, 0)
  \/ EngineSuspended /\ DelayOver("owPe")
  \/ EngineSuspended /\ \E d \in ElapseSteps : Elapse(d)

EngineSpec == EngineInit /\ [][EngineNext]_vars

\* one collectAllData call and the statistics client of its service
CollectNext ==
  \/ CollectPhase
  \/ \E k \in 1..Len(PhaseNames) : PhaseSettled(k)
  \/ CollectWeatherData
  \/ GeneratePredictions
  \/ UpdateDatabase
  \/ CollectSuspended /\ LimitWaitOver("msf")
  \/ CollectSuspended /\ \E oc \in Outcomes, d \in UnitDurations :
                            UnitSettles("msf", oc, d)
  \/ CollectSuspended /\ DelayOver("msf")
  \/ CollectSuspended /\ \E d \in ElapseSteps : Elapse(d)

CollectSpec == CollectInit /\ [][CollectNext]_vars

\* one DataScheduler, its triggers and the ends of its runs
DataSchedulerNext ==
  \/ StartScheduler
  \/ \E kind \in CronKinds : CronTrigger(kind)
  \/ ManualTrigger
  \/ \E r \in 1..MaxTriggers, ok \in BOOLEAN : RunSettles(r, ok)
  \/ Stop

DataSchedulerSpec == DataSchedulerInit /\ [][DataSchedulerNext]_vars

\* one getBulkWeather call and its weather client
BulkNext ==
  \/ BulkCall
  \/ \E n \in 1..MaxBulkTeams, w \in WeatherValues : BulkSettled(n, w)
  \/ BulkPauseOver
  \/ BulkSuspended /\ LimitWaitOver("owDcs")
  \/ BulkSuspended /\ \E oc \in Outcomes : UnitSettles("owDcs", oc, 0)
  \/ BulkSuspended /\ DelayOver("owDcs")
  \/ BulkSuspended /\ \E d \in ElapseSteps : Elapse(d)

BulkSpec == BulkInit /\ [][BulkNext]_vars

\* the calculators applied to their inputs
CalcNext ==
  \/ DetermineConfidence
  \/ DetermineRecommendation
  \/ GetPlayerInjuries
  \/ CalculateInjuryImpact
  \/ GetWeatherImpact
  \/ SelectForecast
  \/ GenerateFactors
  \/ CalculateTeamMetrics

CalcSpec == CalcInit /\ [][CalcNext]_vars

(* ------------------------------ claims -------------------------------- *)

Range(seq) == {seq[i] : i \in 1..Len(seq)}
UnitsOf(c) == {u \in Units : owner[u] = c}
Started(u) == startTime[u] >= 0
\* units of client c that began execution in [lo, hi)
StartsIn(c, lo, hi) ==
  Cardinality({u \in UnitsOf(c) : Started(u) /\ lo <= startTime[u] /\ startTime[u] < hi})
\* u comes before v in seq
Before(seq, u, v) ==
  \E i, j \in 1..Len(seq) : i < j /\ seq[i] = u /\ seq[j] = v

\* C1: count never exceeds the quota, and no more than the quota of units
\* begin execution between two consecutive resets of the window, i.e. within
\* the window that ends at windowEnd.
C1_QuotaPerWindow ==
  \A c \in Clients :
    /\ requestCount[c] <= RateLimit
    /\ windowStarts[c] <= RateLimit
    /\ StartsIn(c, resetTime[c] - Window, resetTime[c]) <= RateLimit
\* the quota is used up and a further unit waits for the window to end
C1_Witness ==
  \E c \in Clients :
    /\ pc[c] = "limitWait"
    /\ requestCount[c] = RateLimit
    /\ windowStarts[c] = RateLimit
    /\ Len(rateLimitQueue[c]) >= 1

\* C2 as stated: no more than the quota of units begin execution inside any
\* rolling 60-second interval [t, t + 60s).  (An interval holding the most
\* starts can be taken to begin at a start.)
C2_RollingQuota ==
  \A c \in Clients : \A u \in UnitsOf(c) :
    Started(u) => StartsIn(c, startTime[u], startTime[u] + Window) <= RateLimit
\* C2 as amended: inside any rolling 60-second interval no more than twice
\* the quota of units begin execution (the interval meets at most two of the
\* Scheduler's windows).
C2_RollingTwiceQuota ==
  \A c \in Clients : \A u \in UnitsOf(c) :
    Started(u) =>
      StartsIn(c, startTime[u], startTime[u] + Window) <= 2 * RateLimit
\* a burst straddling a reset: more than the quota started within 60 s
C2_Witness ==
  \E c \in Clients : \E u \in UnitsOf(c) :
    /\ Started(u)
    /\ StartsIn(c, startTime[u], startTime[u] + Window) > RateLimit

\* C3: units of one Scheduler begin execution in submission order (units
\* are numbered in submission order): a started unit has every earlier unit
\* of its Scheduler started before it.
C3_StartFifo ==
  \A c \in Clients : \A u, v \in UnitsOf(c) :
    (u < v /\ v \in Range(startOrder[c])) => Before(startOrder[c], u, v)
\* three units have started and one, submitted while the drain was active,
\* has been waiting behind a running unit
C3_Witness ==
  \E c \in Clients :
    /\ Len(startOrder[c]) >= 3
    /\ pc[c] \in {"request", "delay", "limitWait"}
    /\ Len(rateLimitQueue[c]) >= 1

\* C4: a unit is run at most once and its caller is settled at most once,
\* never before the unit has run to its end, and then with the unit's own
\* outcome: resolved with its value, rejected with its error.
C4_OwnResultOnce ==
  \A u \in Units :
    /\ runs[u] <= 1
    /\ settles[u] <= 1
    /\ settles[u] = 1 <=> phase[u] = "done"
    /\ phase[u] = "done" =>
         /\ runs[u] = 1
         /\ outcome[u] \in Outcomes
         /\ delivered[u].of = u
         /\ delivered[u].kind = "resolve" <=> outcome[u] = "value"
         /\ delivered[u].kind = "reject" <=> outcome[u] = "error"
    /\ phase[u] # "done" => delivered[u] = NotDelivered
\* one caller has been resolved and another rejected
C4_Witness ==
  \E u, v \in Units :
    /\ delivered[u] = [kind |-> "resolve", of |-> u]
    /\ delivered[v] = [kind |-> "reject", of |-> v]

\* C5: at most one drain loop is active per Scheduler, and isProcessingQueue
\* is true exactly while one is.
C5_SingleDrain ==
  \A c \in Clients :
    /\ activeDrains[c] <= 1
    /\ isProcessingQueue[c] <=> activeDrains[c] = 1
\* submissions arrived while the drain was waiting or running a unit
C5_Witness ==
  \E c \in Clients :
    /\ activeDrains[c] = 1
    /\ pc[c] \in {"request", "delay", "limitWait"}
    /\ Len(rateLimitQueue[c]) >= 2

\* C6: when a unit fails, only that unit's caller is rejected; the drain
\* loop goes on to the inter-request delay, the queue behind the unit is
\* untouched, and count and windowEnd keep their values.
FailureStep(c) ==
  /\ pc[c] = "request"
  /\ pc'[c] # "request"
  /\ outcome'[current[c]] = "error"
C6_FailureIsLocal ==
  [][\A c \in Clients :
       FailureStep(c) =>
         /\ pc'[c] = "delay"
         /\ isProcessingQueue'[c]
         /\ delivered'[current[c]] = [kind |-> "reject", of |-> current[c]]
         /\ \A u \in Units \ {current[c]} : delivered'[u] = delivered[u]
         /\ rateLimitQueue' = rateLimitQueue
         /\ requestCount' = requestCount
         /\ windowStarts' = windowStarts
         /\ resetTime' = resetTime]_vars
\* a unit queued behind a failed unit has run and got its own value, in the
\* same window, the failed unit still counted
C6_Witness ==
  \E c \in Clients : \E u, v \in UnitsOf(c) :
    /\ u < v
    /\ outcome[u] = "error"
    /\ delivered[v] = [kind |-> "resolve", of |-> v]
    /\ requestCount[c] = 2
    /\ startOrder[c] = <<u, v>>

\* C7: every queued unit is eventually run and its caller settled.
C7_NoUnitDropped ==
  \A u \in Units :
    (phase[u] = "queued") ~> (phase[u] = "done" /\ settles[u] = 1)
\* every unit of the run has been settled, more than the quota of them
C7_Witness ==
  /\ \A u \in Units : phase[u] = "done"
  /\ \E c \in Clients : Len(settleOrder[c]) > RateLimit

\* C8: when no unit has failed, callers are settled in submission order.
C8_SettleFifo ==
  \A c \in Clients :
    (\A w \in Range(settleOrder[c]) : outcome[w] = "value") =>
      \A u, v \in UnitsOf(c) :
        (u < v /\ v \in Range(settleOrder[c])) => Before(settleOrder[c], u, v)
\* three callers settled, none failed
C8_Witness ==
  \E c \in Clients :
    /\ Len(settleOrder[c]) >= 3
    /\ \A w \in Range(settleOrder[c]) : outcome[w] = "value"

\* C9: the quota holds per provider: in a 60-second window of any client of
\* a provider, no more than the quota of units begin execution over all the
\* clients of that provider.
ProviderStartsIn(p, lo, hi) ==
  Cardinality({u \in Units : /\ owner[u] \in Clients
                             /\ Provider(owner[u]) = p
                             /\ Started(u)
                             /\ lo <= startTime[u] /\ startTime[u] < hi})
C9_ProviderQuota ==
  \A c \in Clients :
    ProviderStartsIn(Provider(c), resetTime[c] - Window, resetTime[c])
      <= RateLimit

C19_WaitThenHeadFirst ==
  [][\A c \in Clients :
       pc[c] = "limitWait" =>
         /\ requestCount[c] >= RateLimit
         /\ Len(rateLimitQueue[c]) >= 1
         /\ pc'[c] = "limitWait" =>
               /\ startOrder'[c] = startOrder[c]
               /\ Head(rateLimitQueue'[c]) = Head(rateLimitQueue[c])
         /\ pc'[c] # "limitWait" =>
               /\ now' >= resetTime[c]
               /\ pc'[c] = "request"
               /\ current'[c] = Head(rateLimitQueue[c])
               /\ startOrder'[c] = Append(startOrder[c], Head(rateLimitQueue[c]))
               /\ startTime'[Head(rateLimitQueue[c])] = now'
               /\ requestCount'[c] = 1
               /\ windowStarts'[c] = 1
               /\ resetTime'[c] = now' + Window]_vars
\* the quota was used up right after time 0, the next unit waited for
\* windowEnd and is now running as the first unit of the second window, a
\* unit submitted meanwhile queued behind it
C19_Witness ==
  \E c \in Clients :
    /\ pc[c] = "request"
    /\ Len(startOrder[c]) = RateLimit + 1
    /\ \A i \in 1..RateLimit : startTime[startOrder[c][i]] < Window \div 2
    /\ startTime[current[c]] = Window
    /\ requestCount[c] = 1
    /\ resetTime[c] = 2 * Window
    /\ Len(rateLimitQueue[c]) >= 1

\* C20: a unit that starts at a time that has reached windowEnd is counted
\* as the first unit of a window that ends 60 s after its start; whenever a
\* unit starts, now < windowEnd <= now + 60 s.
C20_FreshWindowAtStart ==
  [][\A c \in Clients :
       Len(startOrder'[c]) > Len(startOrder[c]) =>
         /\ now' < resetTime'[c]
         /\ resetTime'[c] <= now' + Window
         /\ now' >= resetTime[c] =>
               /\ requestCount'[c] = 1
               /\ resetTime'[c] = now' + Window]_vars
\* the first unit of a Scheduler that stayed idle until its first window
\* had ended
C20_Witness ==
  \E c \in Clients :
    /\ pc[c] = "request"
    /\ startOrder[c] = <<current[c]>>
    /\ startTime[current[c]] >= Window
    /\ requestCount[c] = 1
    /\ resetTime[c] = startTime[current[c]] + Window

\* C11: generatePredictions never fails as a whole, and at every point of
\* the batch its predictions are, in game order, exactly one for each game
\* handled so far whose two team ids are in the teams array, each carrying
\* its own game's ids; when it returns, every game has been handled.
Resolvable(g) ==
  /\ g.awayTeamId \in {t.id : t \in Teams}
  /\ g.homeTeamId \in {t.id : t \in Teams}
ResolvableUpTo(games, n) ==
  SelectSeq([j \in 1..n |-> j], LAMBDA j : Resolvable(games[j]))
C11_OnePredictionPerResolvableGame ==
  /\ pred.stage # "rejected"
  /\ [j \in 1..Len(pred.predictions) |-> pred.predictions[j].gameId]
       = ResolvableUpTo(pred.games, pred.i - 1)
  /\ \A j \in 1..Len(pred.predictions) :
       LET p == pred.predictions[j]
       IN /\ p.awayTeamId = pred.games[p.gameId].awayTeamId
          /\ p.homeTeamId = pred.games[p.gameId].homeTeamId
  /\ pred.stage = "returned" => pred.i = Len(pred.games) + 1
\* a batch whose first game has an unknown team has returned with the
\* prediction of its second game
C11_Witness ==
  /\ pred.stage = "returned"
  /\ Len(pred.games) = 2
  /\ ~Resolvable(pred.games[1])
  /\ Resolvable(pred.games[2])
  /\ Len(pred.predictions) = 1
  /\ pred.predictions[1].gameId = 2

\* C17: producing a prediction submits nothing to any Scheduler and never
\* suspends: no unit belongs to the engine's weather client and the engine
\* never waits for one.
C17_EngineSubmitsNothing ==
  /\ \A u \in Units : owner[u] # "owPe"
  /\ pred.stage \notin {"awaitForecast", "awaitCurrent"}

\* C18: getForecast for a team without stadium coordinates or for a game
\* more than 120 hours ahead, and getCurrentWeather for a team without
\* stadium coordinates, return null and leave the Scheduler (queue, count,
\* windowEnd and all the rest) as it was.
C18_UnavailableWeatherIsFree ==
  [][/\ (/\ pred.stage = "getForecast"
         /\ \/ HomeTeamAbbr \notin StadiumCoordinates
            \/ CurrentGame.gameDate - now > 120 * 3600000)
        => /\ pred'.stage = "getCurrentWeather"
           /\ pred'.weather = "null"
           /\ schedVars' = schedVars
     /\ (/\ pred.stage = "getCurrentWeather"
         /\ HomeTeamAbbr \notin StadiumCoordinates)
        => /\ pred'.stage = "compute"
           /\ pred'.weather = "null"
           /\ schedVars' = schedVars]_vars
\* no unit has been submitted although a game of a team without
\* coordinates has been predicted (both lookups returned null) and the
\* forecast lookup of a game more than 120 hours ahead has returned null
C18_Witness ==
  /\ pred.stage = "getCurrentWeather"
  /\ pred.i = 2
  /\ Len(pred.predictions) = 1
  /\ FindTeam(pred.games[1].homeTeamId).abbreviation \notin StadiumCoordinates
  /\ pred.predictions[1].weather = "null"
  /\ CurrentGame.gameDate - now > 120 * 3600000
  /\ nextId = 1
  /\ rateLimitQueue["owPe"] = <<>>
  /\ requestCount["owPe"] = 0

\* C12: the confidence tier is a function of the gap g = |away - home| of
\* the two probabilities: high iff g >= 25, medium iff 15 <= g < 25, low
\* iff g < 15.
ProbabilityGap ==
  JsAbs(JsSub(pred.probabilities.awayWinProbability,
              pred.probabilities.homeWinProbability))
C12_ConfidenceByGap ==
  pred.stage \in {"confidence", "recommendation"} =>
    /\ pred.confidence = "high" <=> JsGe(ProbabilityGap, Num(25))
    /\ pred.confidence = "medium" <=>
         JsGe(ProbabilityGap, Num(15)) /\ JsLt(ProbabilityGap, Num(25))
    /\ pred.confidence = "low" <=> JsLt(ProbabilityGap, Num(15))

\* C13: the recommendation is none when confidence is low; otherwise away
\* when away > home, home when home > away, none on a tie; it is not none
\* iff the gap is at least 15, and the recommended side has the strictly
\* higher probability.
C13_RecommendationRule ==
  pred.stage = "recommendation" =>
    LET away == pred.probabilities.awayWinProbability
        home == pred.probabilities.homeWinProbability
        rec == pred.recommendation
    IN /\ rec \in {"away", "home", "none"}
       /\ pred.confidence = "low" => rec = "none"
       /\ pred.confidence # "low" =>
            /\ JsGt(away, home) => rec = "away"
            /\ JsGt(home, away) => rec = "home"
            /\ away = home => rec = "none"
       /\ rec # "none" <=> JsGe(ProbabilityGap, Num(15))
       /\ rec = "away" => JsGt(away, home)
       /\ rec = "home" => JsGt(home, away)
\* a gap of exactly 15 in favour of the away team: medium confidence and
\* the away team recommended
C13_Witness ==
  /\ pred.stage = "recommendation"
  /\ pred.probabilities.awayWinProbability = Num(55)
  /\ pred.probabilities.homeWinProbability = Num(40)
  /\ pred.confidence = "medium"
  /\ pred.recommendation = "away"

\* C14: the injury impact of a team is 100 for no injuries and otherwise
\* round(sum(weight x severity) / sum(weight)) over its injuries, with the
\* weight of the injured player's position (3 for QB/RB/WR/TE, 2 for
\* DE/DT/LB/CB/S, 1 otherwise) and the severity of the status (0 for out,
\* injured-reserve and pup, 25 doubtful, 50 questionable, 100 otherwise);
\* it lies within 0..100.
ClaimedWeight(position) ==
  IF position \in {"QB", "RB", "WR", "TE"} THEN 3
  ELSE IF position \in {"DE", "DT", "LB", "CB", "S"} THEN 2
  ELSE 1
ClaimedSeverity(status) ==
  IF status \in {"out", "injured-reserve", "pup"} THEN 0
  ELSE IF status = "doubtful" THEN 25
  ELSE IF status = "questionable" THEN 50
  ELSE 100
RECURSIVE ClaimedImpactSum(_)
ClaimedImpactSum(n) ==
  IF n = 0 THEN 0
  ELSE ClaimedImpactSum(n - 1)
         + ClaimedWeight(pred.playerInjuries[n].position)
             * ClaimedSeverity(pred.injuries[n].status)
RECURSIVE ClaimedWeightSum(_)
ClaimedWeightSum(n) ==
  IF n = 0 THEN 0
  ELSE ClaimedWeightSum(n - 1) + ClaimedWeight(pred.playerInjuries[n].position)
C14_InjuryImpactWeighted ==
  pred.stage = "injuryImpact" =>
    LET n == Len(pred.injuries)
    IN /\ pred.injuryImpact \in 0..100
       /\ n = 0 => pred.injuryImpact = 100
       /\ n > 0 => pred.injuryImpact
                     = RoundDiv(ClaimedImpactSum(n), ClaimedWeightSum(n))

\* C15: the weather-impact score is the sum of the base 50 and the
\* bonuses and penalties, clamped at both ends: it lies in 0..100.
C15_WeatherImpactClamped ==
  pred.stage = "weatherImpact" =>
    LET raw == RawWeatherImpact(pred.weather)
    IN /\ pred.weatherImpact \in 0..100
       /\ raw < 0 => pred.weatherImpact = 0
       /\ raw > 100 => pred.weatherImpact = 100
       /\ raw \in 0..100 => pred.weatherImpact = raw
\* the worst reading: the penalties take the sum below 0 and the score is 0
C15_Witness ==
  /\ pred.stage = "weatherImpact"
  /\ pred.weather = [temperature |-> Num(10), windSpeed |-> Num(35),
                     precipitation |-> Num(60), visibility |-> Num(4),
                     conditions |-> "Thunderstorm"]
  /\ RawWeatherImpact(pred.weather) = 0 - 65
  /\ pred.weatherImpact = 0

\* C16: forecast selection returns null for an empty list and otherwise
\* the entry whose |timestamp - kickoff| is minimal, the first such entry
\* in list order.
KickoffDiff(j) ==
  LET forecastTime == pred.list[j] * 1000
  IN IF forecastTime >= pred.gameTime THEN forecastTime - pred.gameTime
     ELSE pred.gameTime - forecastTime
C16_ClosestFirst ==
  pred.stage = "forecast" =>
    IF Len(pred.list) = 0
    THEN pred.closest = 0
    ELSE /\ pred.closest \in 1..Len(pred.list)
         /\ \A j \in 1..Len(pred.list) :
              KickoffDiff(pred.closest) <= KickoffDiff(j)
         /\ \A j \in 1..(pred.closest - 1) :
              KickoffDiff(j) > KickoffDiff(pred.closest)
\* the second and a later entry are equally close to kickoff and closer
\* than the first: the second is returned
C16_Witness ==
  /\ pred.stage = "forecast"
  /\ pred.closest = 2
  /\ KickoffDiff(1) > KickoffDiff(2)
  /\ \E j \in 3..Len(pred.list) : KickoffDiff(j) = KickoffDiff(2)

\* C21: between the completion of a unit (success or failure) and the
\* start of the next unit of the same Scheduler at least the inter-request
\* delay elapses: 100 ms for the statistics client, 200 ms for the weather
\* clients.
C21_DelayBetweenUnits ==
  [][\A c \in Clients :
       (Len(startOrder'[c]) > Len(startOrder[c]) /\ settleTime[c] >= 0) =>
         now' >= settleTime[c] + (IF c = "msf" THEN 100 ELSE 200)]_vars
\* a failed unit is followed, exactly one delay after its failure, by the
\* next unit, which is running
C21_Witness ==
  \E c \in Clients : \E u, v \in UnitsOf(c) :
    /\ startOrder[c] = <<u, v>>
    /\ outcome[u] = "error"
    /\ phase[v] = "running"
    /\ startTime[v] = settleTime[c] + (IF c = "msf" THEN 100 ELSE 200)
    /\ rateLimitQueue[c] = <<>>

\* C22: at most one unit of a Scheduler is executing at any time: a unit
\* starts only after every earlier unit has completed or failed, and units
\* complete in submission order also when some of them fail.
C22_OneUnitAtATime ==
  \A c \in Clients :
    /\ Cardinality({u \in UnitsOf(c) : phase[u] = "running"}) <= 1
    /\ \A u, v \in UnitsOf(c) :
         /\ (u < v /\ Started(v)) => phase[u] = "done"
         /\ (u < v /\ v \in Range(settleOrder[c])) =>
              Before(settleOrder[c], u, v)
\* a unit is running after a failed and a successful one, another waits
C22_Witness ==
  \E c \in Clients : \E u, v, w \in UnitsOf(c) :
    /\ settleOrder[c] = <<u, v>>
    /\ outcome[u] = "error"
    /\ outcome[v] = "value"
    /\ phase[w] = "running"
    /\ Len(rateLimitQueue[c]) >= 1

\* C23: no lost wake-up: a Scheduler with no active drain loop
\* (isProcessingQueue = false) has an empty queue.
C23_NoLostWakeup ==
  \A c \in Clients :
    ~isProcessingQueue[c] => Len(rateLimitQueue[c]) = 0
\* the drain loop has found the queue empty and exited, and a unit
\* submitted after that is running under a new drain loop
C23_Witness ==
  \E c \in Clients : \E u, v \in UnitsOf(c) :
    /\ startOrder[c] = <<u, v>>
    /\ phase[u] = "done"
    /\ startTime[v] > settleTime[c] + 200
    /\ isProcessingQueue[c]
    /\ phase[v] = "running"

GapOf(pair) == IF pair[1] >= pair[2] THEN pair[1] - pair[2] ELSE pair[2] - pair[1]
HasEntry(name) ==
  \E i \in 1..Len(pred.factors) :
    pred.factors[i] \in {"away " \o name, "home " \o name}
C26_FactorsAtThreshold ==
  pred.stage = "factors" =>
    /\ HasEntry("strength") <=> GapOf(pred.metrics.teamStrength) >= 10
    /\ HasEntry("offense") <=> GapOf(pred.metrics.offensivePower) >= 15
    /\ HasEntry("defense") <=> GapOf(pred.metrics.defensivePower) >= 15
    /\ HasEntry("injuries") <=> GapOf(pred.metrics.injuryImpact) >= 20
    /\ HasEntry("momentum") <=> GapOf(pred.metrics.momentum) >= 20

\* C27: a weather failure never fails a prediction. A forecast that is
\* absent falls back to the current conditions; a weather call that fails,
\* or a venue without coordinates, gives the null reading; the game is
\* then still predicted, with the reading found, and with a null reading
\* both teams' weatherImpact is 50; generatePredictions never rejects.
C27_WeatherFailureTolerated ==
  [][/\ (/\ pred.stage \in {"awaitForecast", "awaitCurrent"}
         /\ phase[pred.unit] = "done"
         /\ delivered[pred.unit].kind = "reject"
         /\ pred' # pred)
        => /\ pred'.stage = "compute"
           /\ pred'.weather = "null"
     /\ (/\ pred.stage = "awaitForecast"
         /\ phase[pred.unit] = "done"
         /\ delivered[pred.unit].kind # "reject"
         /\ pred' # pred)
        => \/ pred'.stage = "compute" /\ pred'.weather = "reading"
           \/ pred'.stage = "getCurrentWeather"
     /\ (/\ pred.stage \in {"getForecast", "getCurrentWeather"}
         /\ HomeTeamAbbr \notin StadiumCoordinates)
        => /\ pred'.stage \in {"getCurrentWeather", "compute"}
           /\ pred'.weather = "null"
     /\ (pred.stage = "compute" /\ pred' # pred)
        => /\ pred'.stage = "loop"
           /\ pred'.i = pred.i + 1
           /\ Len(pred'.predictions) = Len(pred.predictions) + 1
           /\ LET p == pred'.predictions[Len(pred'.predictions)]
              IN /\ p.gameId = pred.i
                 /\ p.weather = pred.weather
                 /\ p.weather = "null" =>
                      /\ p.awayWeatherImpact = Num(50)
                      /\ p.homeWeatherImpact = Num(50)
     /\ pred'.stage # "rejected"]_vars
\* the only game's forecast call has failed and the game has been
\* predicted with a null reading and weatherImpact 50 for both teams
C27_Witness ==
  /\ pred.stage = "returned"
  /\ Len(pred.games) = 1
  /\ Len(pred.predictions) = 1
  /\ nextId = 2
  /\ delivered[1].kind = "reject"
  /\ pred.predictions[1].weather = "null"
  /\ pred.predictions[1].awayWeatherImpact = Num(50)
  /\ pred.predictions[1].homeWeatherImpact = Num(50)

\* C25: each of the six sub-scores of a team's metrics, and the overall
\* score, is a number within 0..100.
C25_SubScoresInRange ==
  pred.stage = "teamMetrics" =>
    /\ pred.metrics.teamStrength \in 0..100
    /\ pred.metrics.offensivePower \in 0..100
    /\ pred.metrics.defensivePower \in 0..100
    /\ pred.metrics.injuryImpact \in 0..100
    /\ pred.metrics.weatherImpact \in {Num(n) : n \in 0..100}
    /\ pred.metrics.scheduleStrength \in 0..100
    /\ pred.metrics.overall \in {Num(n) : n \in 0..100}
\* the same scores for a team without a weather reading
C25_WithoutReading ==
  (pred.stage = "teamMetrics" /\ pred.input.weather = "null") =>
    /\ pred.metrics.teamStrength \in 0..100
    /\ pred.metrics.offensivePower \in 0..100
    /\ pred.metrics.defensivePower \in 0..100
    /\ pred.metrics.injuryImpact \in 0..100
    /\ pred.metrics.weatherImpact = Num(50)
    /\ pred.metrics.scheduleStrength \in 0..100
    /\ pred.metrics.overall \in {Num(n) : n \in 0..100}

\* C28: the four phases of collectAllData are independent. A phase whose
\* provider call has settled has recorded exactly one log of its own, failed
\* when the call failed and success otherwise, whatever the others did; the
\* run is rejected, with a 'comprehensive' failed log, exactly when a phase
\* has failed; all four phases have been started by then, and a rejected
\* run collects no weather, generates no predictions and updates no
\* database.
LogCount(entry) ==
  Cardinality({i \in 1..Len(pred.updateLogs) : pred.updateLogs[i] = entry})
C28_PhasesIndependent ==
  "unitOf" \in DOMAIN pred =>
    /\ \A k \in 1..4 :
         LET name == <<"teams", "games", "stats", "injuries">>[k]
             u == pred.unitOf[k]
             settled == u # 0 /\ phase[u] = "done" /\ pred.status[k] # "pending"
         IN /\ LogCount(<<name, "failed">>) =
                 IF settled /\ delivered[u].kind = "reject" THEN 1 ELSE 0
            /\ LogCount(<<name, "success">>) =
                 IF settled /\ delivered[u].kind # "reject" THEN 1 ELSE 0
            /\ pred.status[k] = "failed" <=> LogCount(<<name, "failed">>) = 1
    /\ (\E k \in 1..4 : pred.status[k] = "failed") <=> pred.result = "rejected"
    /\ pred.result = "rejected" =>
         /\ LogCount(<<"comprehensive", "failed">>) = 1
         /\ LogCount(<<"comprehensive", "success">>) = 0
         /\ \A k \in 1..4 : pred.unitOf[k] # 0
         /\ ~pred.weatherData /\ ~pred.predictions /\ ~pred.database
         /\ LogCount(<<"weather", "success">>) = 0
         /\ LogCount(<<"predictions", "success">>) = 0
\* the teams phase has failed and the run has been rejected; the other
\* three phases have then completed and logged their success
C28_Witness ==
  /\ "unitOf" \in DOMAIN pred
  /\ pred.status = <<"failed", "success", "success", "success">>
  /\ pred.result = "rejected"
  /\ pred.updateLogs = <<(<<"teams", "failed">>), <<"comprehensive", "failed">>,
                         <<"games", "success">>, <<"stats", "success">>,
                         <<"injuries", "success">> >>
  /\ ~pred.weatherData

\* C29: the DataScheduler never has two collection runs in progress at
\* once, and isRunning is true while a run (initial, hourly, daily, weekly
\* or manual) is in progress.
RunsInProgress == {r \in 1..Len(pred.runs) : pred.runs[r].state = "running"}
C29_OneRunAtATime ==
  /\ Cardinality(RunsInProgress) <= 1
  /\ RunsInProgress # {} => pred.isRunning

\* C30: getBulkWeather works through the request in sub-batches of at most
\* batchSize calls: no call of a later sub-batch is made before every call
\* of the earlier ones has completed or failed. It never rejects; the
\* record it returns has exactly one entry per requested abbreviation, null
\* for a team whose call failed (or found no coordinates or no data) and
\* the reading of the team's own call otherwise, whatever happened to the
\* calls of the other teams; an abbreviation requested more than once has
\* the entry of its last call.
SubBatchOf(n) == (n - 1) \div BatchSize
Requested == 1..Len(pred.teamAbbreviations)
CallMade(n) == pred.unitOf[n] # 0 \/ pred.got[n] # "pending"
LastRequestOf(t) ==
  CHOOSE n \in Requested :
    /\ pred.teamAbbreviations[n] = t
    /\ \A m \in Requested : pred.teamAbbreviations[m] = t => m <= n
C30_SubBatchesInOrder ==
  /\ pred.stage # "rejected"
  /\ Cardinality({n \in Requested :
                    pred.unitOf[n] # 0 /\ phase[pred.unitOf[n]] # "done"}) <= BatchSize
  /\ \A a, b \in Requested :
       (SubBatchOf(a) < SubBatchOf(b) /\ CallMade(b)) =>
         /\ pred.got[a] # "pending"
         /\ pred.unitOf[a] # 0 => phase[pred.unitOf[a]] = "done"
  /\ \A n \in Requested :
       /\ (pred.unitOf[n] # 0 /\ pred.got[n] # "pending"
             /\ delivered[pred.unitOf[n]].kind = "reject") => pred.got[n] = "null"
       /\ pred.got[n] = "reading" =>
            /\ pred.unitOf[n] # 0
            /\ delivered[pred.unitOf[n]].kind = "resolve"
  /\ pred.stage = "returned" =>
       /\ DOMAIN pred.results = {pred.teamAbbreviations[n] : n \in Requested}
       /\ \A t \in DOMAIN pred.results :
            /\ pred.results[t] \in {"reading", "null"}
            /\ pred.results[t] = pred.got[LastRequestOf(t)]
\* the call for the first team has failed, the second has no coordinates,
\* and the call for the last team, in the second sub-batch, was made a
\* pause after the first had failed and has returned a reading
C30_Witness ==
  /\ pred.stage = "returned"
  /\ pred.teamAbbreviations = <<"KC", "OAK", "OAK", "BUF">>
  /\ pred.unitOf = <<1, 0, 0, 2>>
  /\ delivered[1].kind = "reject"
  /\ startTime[2] = 1000
  /\ pred.results["KC"] = "null"
  /\ pred.results["OAK"] = "null"
  /\ pred.results["BUF"] = "reading"

====
